---- MODULE Spec2Model ----
(***************************************************************************)
(* The visualization pipeline of the visualizer app                        *)
(* (src/visualizer/validators.py) and the chat handler that drives it      *)
(* (src/visualizer/views.py, ConversationViewSet.chat), and the choice of   *)
(* the active model (src/visualizer/services.py, set_active_model).        *)
(*                                                                         *)
(* A JSON value, as json.loads builds it, is a tagged record:              *)
(*   [k |-> "null"]                      None                              *)
(*   [k |-> "bool",  v |-> TRUE]         bool                              *)
(*   [k |-> "int",   v |-> 3]            int                               *)
(*   [k |-> "hugeint"]                   an int beyond the range of float  *)
(*   [k |-> "float", v |-> 3]            float (the model's floats are     *)
(*                                       whole numbers)                    *)
(*   [k |-> "nan"]                       the float NaN (json.loads reads   *)
(*                                       the literal NaN)                  *)
(*   [k |-> "str",   v |-> "bar"]        str                               *)
(*   [k |-> "list",  v |-> <<..>>]       list                              *)
(*   [k |-> "dict",  v |-> [key |-> ..]] dict                              *)
(***************************************************************************)
EXTENDS Integers, Sequences, FiniteSets, TLC

VARIABLES
  input,      \* SpecPure: the document handed to the functions
  fpc,        \* SpecPure: which function was applied last
  v1,         \* SpecPure: validate_config(input)
  out1,       \* SpecPure: outcome of the first application (repair or theming)
  v2,         \* SpecPure: validate_config of out1's document
  out2,       \* SpecPure: outcome of the second application, on out1's document
  pc,         \* chat: position of each request in ConversationViewSet.chat
  session,    \* chat: the session_id each request carries
  result,     \* chat: each request's local variable `result`
  conv,       \* chat: each request's local variable `conversation` (0: none yet)
  exc,        \* chat: the exception each request's except clause caught ("": none)
  conversations,  \* table Conversation: a set of rows
  jobs,           \* table ProcessingJob: each request's row (job_id is a fresh uuid)
  messages,       \* table Message: a set of rows
  visualizations, \* table Visualization: a set of rows
  job_history,    \* per job, the statuses its row was written with, in order
  calls,          \* per request, the pipeline steps it has run, in order
  configs,        \* table OllamaConfiguration: is_active of the row of each model_name
  spc,            \* set_active_model: position of each caller in the function
  model_name,     \* set_active_model: each caller's argument ("": not in a call)
  loaded,         \* set_active_model: each caller's local `config`, the row it read
  named,          \* the model names set_active_model has been called with
  ncalls          \* per caller, the calls of set_active_model it has made

vars == <<input, fpc, v1, out1, v2, out2, pc, session, result, conv, exc,
          conversations, jobs, messages, visualizations, job_history, calls,
          configs, spc, model_name, loaded, named, ncalls>>

pure_vars == <<input, fpc, v1, out1, v2, out2>>

active_vars == <<configs, spc, model_name, loaded, named, ncalls>>

chat_vars == <<pc, session, result, conv, exc, conversations, jobs, messages,
               visualizations, job_history, calls>>

(***************************************************************************)
(* JSON values and the Python operations the code applies to them.         *)
(***************************************************************************)
Null == [k |-> "null"]

Bool(b) == [k |-> "bool", v |-> b]

Int_(n) == [k |-> "int", v |-> n]

HugeInt == [k |-> "hugeint"]

Float(n) == [k |-> "float", v |-> n]

NaN == [k |-> "nan"]

Str(s) == [k |-> "str", v |-> s]

List(s) == [k |-> "list", v |-> s]

Dict(f) == [k |-> "dict", v |-> f]

EmptyMap == [a \in {} |-> Null]

EmptyDict == Dict(EmptyMap)

\* d[key] = val on a dict
SetItem(d, key, val) ==
  Dict([a \in DOMAIN d.v \cup {key} |-> IF a = key THEN val ELSE d.v[a]])

\* key in d, d a dict
HasKey(d, key) == key \in DOMAIN d.v

\* d.get(key, default), d a dict
Get(d, key, default) == IF HasKey(d, key) THEN d.v[key] ELSE default

\* The strings of the model that hold another string of the model inside them.
SubstringPairs ==
  { <<"labels", "labels datasets">>, <<"datasets", "labels datasets">>,
    <<"title", "title legend">>, <<"legend", "title legend">> }

IsSubstring(sub, s) == sub = s \/ <<sub, s>> \in SubstringPairs

\* `key in x` for a str key: "yes", "no", or "raise" (TypeError: x is not iterable)
PyIn(key, x) ==
  CASE x.k = "dict" -> IF key \in DOMAIN x.v THEN "yes" ELSE "no"
    [] x.k = "list" -> IF \E i \in 1..Len(x.v) : x.v[i] = Str(key) THEN "yes" ELSE "no"
    [] x.k = "str"  -> IF IsSubstring(key, x.v) THEN "yes" ELSE "no"
    [] OTHER        -> "raise"

\* The characters of the strings the model iterates over.
CharTable == [s \in {"", "xy"} |-> IF s = "xy" THEN <<"x", "y">> ELSE <<>>]

RECURSIVE SetToSeq(_)
SetToSeq(S) ==
  IF S = {} THEN <<>>
  ELSE LET x == CHOOSE x \in S : TRUE IN <<x>> \o SetToSeq(S \ {x})

\* `for e in x`: the elements, or a raise (TypeError: x is not iterable).
\* A dict yields its keys, a str its characters.
PyIter(x) ==
  CASE x.k = "list" -> [raised |-> FALSE, items |-> x.v]
    [] x.k = "dict" -> [raised |-> FALSE,
                        items |-> LET ks == SetToSeq(DOMAIN x.v)
                                  IN [i \in 1..Len(ks) |-> Str(ks[i])]]
    [] x.k = "str"  -> [raised |-> FALSE,
                        items |-> [i \in 1..Len(CharTable[x.v]) |-> Str(CharTable[x.v][i])]]
    [] OTHER        -> [raised |-> TRUE, items |-> <<>>]

\* len(x): -1 stands for the raise (TypeError: object has no len())
PyLen(x) ==
  CASE x.k = "list" -> Len(x.v)
    [] x.k = "str"  -> Len(x.v)
    [] x.k = "dict" -> Cardinality(DOMAIN x.v)
    [] OTHER        -> -1

(***************************************************************************)
(* CHART_CONFIG_SCHEMA, as jsonschema.validate checks it.  A keyword       *)
(* applies only to instances of its type: "required" and "properties" to   *)
(* objects, "items" and "minItems" to arrays, "minLength" to strings.      *)
(***************************************************************************)
minItems == 1

maxItems == 10

minLength == 1

IsNumberOrBool(x) == x.k \in {"int", "hugeint", "float", "nan", "bool"}

\* jsonschema's "number": an int or a float, and never a bool
IsNumber(x) == x.k \in {"int", "hugeint", "float", "nan"}

SchemaString(x, min) == x.k = "str" /\ Len(x.v) >= min

ChartTypes == {"bar", "line", "pie", "doughnut", "radar", "polarArea", "scatter", "bubble"}

SchemaBackgroundColor(x) ==
  \* oneOf: exactly one of the two alternatives matches
  (x.k = "str") # (x.k = "list" /\ \A i \in 1..Len(x.v) : x.v[i].k = "str")

SchemaDataset(ds) ==
  /\ ds.k = "dict"
  /\ {"label", "data"} \subseteq DOMAIN ds.v
  /\ ds.v["label"].k = "str"
  /\ ds.v["data"].k = "list"
  /\ \A i \in 1..Len(ds.v["data"].v) : IsNumber(ds.v["data"].v[i])
  /\ HasKey(ds, "backgroundColor") => SchemaBackgroundColor(ds.v["backgroundColor"])
  /\ HasKey(ds, "borderColor") => ds.v["borderColor"].k = "str"
  /\ HasKey(ds, "borderWidth") => IsNumber(ds.v["borderWidth"])

SchemaData(data) ==
  /\ data.k = "dict"
  /\ {"labels", "datasets"} \subseteq DOMAIN data.v
  /\ data.v["labels"].k = "list"
  /\ Len(data.v["labels"].v) >= minItems
  /\ \A i \in 1..Len(data.v["labels"].v) :
       data.v["labels"].v[i].k = "str" \/ IsNumber(data.v["labels"].v[i])
  /\ data.v["datasets"].k = "list"
  /\ Len(data.v["datasets"].v) >= minItems
  /\ \A i \in 1..Len(data.v["datasets"].v) : SchemaDataset(data.v["datasets"].v[i])

SchemaChart(chart) ==
  /\ chart.k = "dict"
  /\ {"type", "title", "data"} \subseteq DOMAIN chart.v
  /\ chart.v["type"].k = "str"
  /\ chart.v["type"].v \in ChartTypes
  /\ SchemaString(chart.v["title"], minLength)
  /\ SchemaData(chart.v["data"])
  /\ HasKey(chart, "options") => chart.v["options"].k = "dict"

CHART_CONFIG_SCHEMA(config) ==
  /\ config.k = "dict"
  /\ {"explanation", "charts"} \subseteq DOMAIN config.v
  /\ SchemaString(config.v["explanation"], minLength)
  /\ config.v["charts"].k = "list"
  /\ Len(config.v["charts"].v) >= minItems
  /\ Len(config.v["charts"].v) <= maxItems
  /\ \A i \in 1..Len(config.v["charts"].v) : SchemaChart(config.v["charts"].v[i])

(***************************************************************************)
(* VisualizationValidator.validate_config                                  *)
(***************************************************************************)
NoError == [kind |-> "", data_length |-> 0, labels_length |-> 0, title |-> ""]

SchemaError == [kind |-> "schema", data_length |-> 0, labels_length |-> 0, title |-> ""]

\* isinstance(x, (int, float)): bool is a subclass of int
IsIntOrFloat(x) == x.k \in {"int", "hugeint", "float", "nan", "bool"}

DatasetErrorSwapped(chart, dataset) ==
  LET labels_length == Len(chart.v["data"].v["labels"].v)
      data_length == Len(dataset.v["data"].v)
  IN IF data_length # labels_length
     THEN [kind |-> "length", data_length |-> labels_length,
           labels_length |-> data_length, title |-> chart.v["title"].v]
     ELSE NoError

\* The body of the inner loop for one dataset of a chart: the error it returns
\* with, or NoError when the loop goes on.
DatasetError(chart, dataset) ==
  LET labels_length == Len(chart.v["data"].v["labels"].v)
      data_length == Len(dataset.v["data"].v)
  IN IF data_length # labels_length
     THEN [kind |-> "length", data_length |-> data_length,
           labels_length |-> labels_length, title |-> chart.v["title"].v]
     ELSE IF ~(\A i \in 1..data_length : IsIntOrFloat(dataset.v["data"].v[i]))
     THEN [kind |-> "numeric", data_length |-> 0, labels_length |-> 0,
           title |-> chart.v["title"].v]
     ELSE NoError

\* The two nested loops: the first error in document order.
RECURSIVE FirstDatasetError(_, _, _)
FirstDatasetError(chart, datasets, j) ==
  IF j > Len(datasets) THEN NoError
  ELSE LET e == DatasetError(chart, datasets[j])
       IN IF e # NoError THEN e ELSE FirstDatasetError(chart, datasets, j + 1)

RECURSIVE FirstChartError(_, _)
FirstChartError(charts, i) ==
  IF i > Len(charts) THEN NoError
  ELSE LET e == FirstDatasetError(charts[i], charts[i].v["data"].v["datasets"].v, 1)
       IN IF e # NoError THEN e ELSE FirstChartError(charts, i + 1)

\* The try block of validate_config as it ends: by one of its return
\* statements, or by the ValidationError that validate() raises on a document
\* that does not conform to the schema.  `doc` is the document after the call.
validate_try(config) ==
  IF ~CHART_CONFIG_SCHEMA(config)
  THEN [raised |-> "ValidationError", valid |-> FALSE, error |-> SchemaError, doc |-> config]
  ELSE LET e == FirstChartError(config.v["charts"].v, 1)
       IN [raised |-> "", valid |-> e = NoError, error |-> e, doc |-> config]

Uncaught(outcome) == outcome

\* except ValidationError as e: return False, str(e)
\* except Exception as e: return False, str(e)
Caught(outcome) ==
  IF outcome.raised # "" THEN [outcome EXCEPT !.raised = "", !.valid = FALSE]
  ELSE outcome

\* A call of validate_config, as its caller sees it
validate_config_call(config) == Caught(validate_try(config))

\* The pair it returns
validate_config(config) ==
  LET call == validate_config_call(config)
  IN [valid |-> call.valid, error |-> call.error]

(***************************************************************************)
(* VisualizationValidator.fix_common_issues                                *)
(***************************************************************************)
\* The numeric strings of the model, with the value float() reads from them.
FloatLiterals == [s \in {"7"} |-> 7]

\* str.title() on the strings the model uses as a chart type
StrTitle(s) ==
  CASE s = "bar" -> "Bar"
    [] s = "line" -> "Line"
    [] s = "pie" -> "Pie"
    [] s = "doughnut" -> "Doughnut"
    [] s = "radar" -> "Radar"
    [] s = "polarArea" -> "Polararea"
    [] s = "scatter" -> "Scatter"
    [] s = "bubble" -> "Bubble"
    [] s = "heatmap" -> "Heatmap"
    [] s = "" -> ""

CoerceNumberNullFails(x) ==
  CASE x.k \in {"int", "float"} -> [raised |-> FALSE, val |-> Float(x.v)]
    [] x.k = "bool"  -> [raised |-> FALSE, val |-> Float(IF x.v THEN 1 ELSE 0)]
    [] x.k = "str" /\ x.v \in {"7"} -> [raised |-> FALSE, val |-> Float(7)]
    [] OTHER         -> [raised |-> TRUE, val |-> Null]

\* float(x) if x is not None else 0.  float() raises ValueError on a str that
\* is no number, TypeError on a list or a dict, OverflowError on an int too
\* large for a float.
CoerceNumber(x) ==
  CASE x.k = "null"  -> [raised |-> FALSE, val |-> Int_(0)]
    [] x.k = "int"   -> [raised |-> FALSE, val |-> Float(x.v)]
    [] x.k = "float" -> [raised |-> FALSE, val |-> Float(x.v)]
    [] x.k = "nan"   -> [raised |-> FALSE, val |-> NaN]
    [] x.k = "bool"  -> [raised |-> FALSE, val |-> Float(IF x.v THEN 1 ELSE 0)]
    [] x.k = "str" /\ x.v \in DOMAIN FloatLiterals
                     -> [raised |-> FALSE, val |-> Float(FloatLiterals[x.v])]
    [] OTHER         -> [raised |-> TRUE, val |-> Null]

PadOrTruncateKeepsLast(data, labels_len) ==
  IF Len(data) > labels_len THEN SubSeq(data, Len(data) - labels_len + 1, Len(data))
  ELSE data \o [i \in 1..(labels_len - Len(data)) |-> Int_(0)]

\* Truncate or pad data to match labels
PadOrTruncateMissingMinus(data, labels_len) ==
  IF Len(data) > labels_len THEN SubSeq(data, 1, labels_len)
  ELSE data \o [i \in 1..labels_len |-> Int_(0)]

PadOrTruncate(data, labels_len) ==
  IF Len(data) > labels_len THEN SubSeq(data, 1, labels_len)
  ELSE data \o [i \in 1..(labels_len - Len(data)) |-> Int_(0)]

\* The body of the loop over datasets for one element: "keep" (appended to
\* fixed_datasets), "skip" (continue, or not appended) or "raise".
FixDataset(dataset, data) ==
  IF dataset.k # "dict" THEN [outcome |-> "skip", ds |-> dataset]
  ELSE
    LET labelled == IF HasKey(dataset, "label") THEN dataset
                    ELSE SetItem(dataset, "label", Str("Dataset"))
    IN IF ~(HasKey(labelled, "data") /\ labelled.v["data"].k = "list")
       THEN [outcome |-> "skip", ds |-> labelled]
       ELSE
         LET old == labelled.v["data"].v
             coerced == [i \in 1..Len(old) |-> CoerceNumber(old[i])]
         IN IF \E i \in 1..Len(old) : coerced[i].raised
            THEN [outcome |-> "skip", ds |-> labelled]
            ELSE
              LET numbers == [i \in 1..Len(old) |-> coerced[i].val]
                  labels_len == PyLen(Get(data, "labels", List(<<>>)))
              IN IF labels_len < 0
                 THEN [outcome |-> "raise", ds |-> labelled]
                 ELSE [outcome |-> "keep",
                       ds |-> SetItem(labelled, "data",
                                      List(PadOrTruncate(numbers, labels_len)))]

\* The loop over datasets: fixed_datasets, or the raise that ends it.
RECURSIVE FixDatasets(_, _, _, _)
FixDatasets(datasets, data, j, fixed) ==
  IF j > Len(datasets) THEN [raised |-> FALSE, fixed |-> fixed]
  ELSE LET r == FixDataset(datasets[j], data)
       IN CASE r.outcome = "raise" -> [raised |-> TRUE, fixed |-> fixed]
            [] r.outcome = "keep"  -> FixDatasets(datasets, data, j + 1, Append(fixed, r.ds))
            [] OTHER               -> FixDatasets(datasets, data, j + 1, fixed)

\* Add default options if missing
DefaultOptions(chart) ==
  Dict([responsive |-> Bool(TRUE),
        plugins |-> Dict([title |-> Dict([display |-> Bool(TRUE),
                                          text |-> chart.v["title"]])])])

LacksTypeAndData(chart) == ~HasKey(chart, "type") /\ ~HasKey(chart, "data")

\* Ensure required fields exist: 'type' not in chart or 'data' not in chart
LacksTypeOrData(chart) == ~HasKey(chart, "type") \/ ~HasKey(chart, "data")

\* The body of the loop over charts for one element: "keep" (appended to
\* fixed_charts), "skip" (continue) or "raise".
FixChart(chart) ==
  IF chart.k # "dict" THEN [outcome |-> "skip", chart |-> chart]
  ELSE IF LacksTypeOrData(chart)
  THEN [outcome |-> "skip", chart |-> chart]
  ELSE IF ~HasKey(chart, "title") /\ (~HasKey(chart, "type") \/ chart.v["type"].k # "str")
  THEN [outcome |-> "raise", chart |-> chart]   \* AttributeError: no .title()
  ELSE
    LET titled == IF HasKey(chart, "title") THEN chart
                  ELSE SetItem(chart, "title",
                               Str(StrTitle(chart.v["type"].v) \o " Chart"))
        data == Get(titled, "data", EmptyDict)
    IN IF PyIn("labels", data) = "raise"
       THEN [outcome |-> "raise", chart |-> titled]  \* TypeError: not iterable
       ELSE IF PyIn("labels", data) = "no" \/ PyIn("datasets", data) = "no"
       THEN [outcome |-> "skip", chart |-> titled]
       ELSE IF data.k # "dict"
       THEN [outcome |-> "raise", chart |-> titled]  \* AttributeError: no .get
       ELSE
         LET it == PyIter(Get(data, "datasets", List(<<>>)))
         IN IF it.raised THEN [outcome |-> "raise", chart |-> titled]
            ELSE
              LET r == FixDatasets(it.items, data, 1, <<>>)
              IN IF r.raised THEN [outcome |-> "raise", chart |-> titled]
                 ELSE IF r.fixed = <<>> THEN [outcome |-> "skip", chart |-> titled]
                 ELSE
                   LET with_data == SetItem(titled, "data",
                                            SetItem(data, "datasets", List(r.fixed)))
                   IN [outcome |-> "keep",
                       chart |-> IF HasKey(with_data, "options") THEN with_data
                                 ELSE SetItem(with_data, "options",
                                              DefaultOptions(with_data))]

RECURSIVE FixChartsReversed(_, _, _)
FixChartsReversed(charts, i, fixed) ==
  IF i > Len(charts) THEN [raised |-> FALSE, fixed |-> fixed]
  ELSE LET r == FixChart(charts[i])
       IN CASE r.outcome = "raise" -> [raised |-> TRUE, fixed |-> fixed]
            [] r.outcome = "keep"  -> FixChartsReversed(charts, i + 1, <<r.chart>> \o fixed)
            [] OTHER               -> FixChartsReversed(charts, i + 1, fixed)

\* The loop over charts: fixed_charts, or the raise that ends it.
RECURSIVE FixCharts(_, _, _)
FixCharts(charts, i, fixed) ==
  IF i > Len(charts) THEN [raised |-> FALSE, fixed |-> fixed]
  ELSE LET r == FixChart(charts[i])
       IN CASE r.outcome = "raise" -> [raised |-> TRUE, fixed |-> fixed]
            [] r.outcome = "keep"  -> FixCharts(charts, i + 1, Append(fixed, r.chart))
            [] OTHER               -> FixCharts(charts, i + 1, fixed)

\* The outcome of fix_common_issues(config): the document it returns, or
\* raised (an exception left the function; the caller sees no document).
fix_common_issues(config) ==
  IF config.k # "dict" THEN [raised |-> FALSE, doc |-> config]
  ELSE
    LET it == PyIter(Get(config, "charts", List(<<>>)))
    IN IF it.raised THEN [raised |-> TRUE, doc |-> config]
       ELSE LET r == FixCharts(it.items, 1, <<>>)
            IN IF r.raised THEN [raised |-> TRUE, doc |-> config]
               ELSE [raised |-> FALSE, doc |-> SetItem(config, "charts", List(r.fixed))]

(***************************************************************************)
(* apply_visualization_rules.  The function works in place: its outcome is *)
(* the document as the call leaves it, and whether it returned or raised.  *)
(***************************************************************************)
\* Multiple colors for segments
colors ==
  << "rgba(212, 175, 55, 0.8)", "rgba(255, 215, 0, 0.8)",
     "rgba(212, 175, 55, 0.6)", "rgba(255, 215, 0, 0.6)",
     "rgba(212, 175, 55, 0.4)", "rgba(255, 215, 0, 0.4)" >>

\* seq * n
RECURSIVE Repeat(_, _)
Repeat(seq, n) == IF n <= 0 THEN <<>> ELSE seq \o Repeat(seq, n - 1)

SegmentColorsOnePass(num_items) ==
  List([i \in 1..(IF num_items < Len(colors) THEN num_items ELSE Len(colors)) |-> Str(colors[i])])

\* (colors * ((num_items // len(colors)) + 1))[:num_items]
SegmentColors(num_items) ==
  LET all == Repeat(colors, (num_items \div Len(colors)) + 1)
  IN List([i \in 1..num_items |-> Str(all[i])])

\* if 'borderWidth' not in dataset: dataset['borderWidth'] = 2
DefaultBorderWidthAdds(dataset) ==
  SetItem(dataset, "borderWidth",
          Int_(2 + (IF HasKey(dataset, "borderWidth") /\ dataset.v["borderWidth"].k = "int"
                    THEN dataset.v["borderWidth"].v ELSE 0)))

DefaultBorderWidth(dataset) ==
  IF HasKey(dataset, "borderWidth") THEN dataset
  ELSE SetItem(dataset, "borderWidth", Int_(2))

\* if 'borderColor' not in dataset: dataset['borderColor'] = '#d4af37'
DefaultBorderColorAlways(dataset) == SetItem(dataset, "borderColor", Str("#d4af37"))

DefaultBorderColor(dataset) ==
  IF HasKey(dataset, "borderColor") THEN dataset
  ELSE SetItem(dataset, "borderColor", Str("#d4af37"))

\* The body of the loop over datasets for one element.
ThemeDataset(chart_type, dataset) ==
  IF dataset.k # "dict"
  THEN \* a list or a str passes only if it holds all three names; any
       \* other value raises at the first `in`, at .get or at the assignment
       [raised |-> ~(/\ PyIn("backgroundColor", dataset) = "yes"
                     /\ PyIn("borderColor", dataset) = "yes"
                     /\ PyIn("borderWidth", dataset) = "yes"),
        ds |-> dataset]
  ELSE
    LET num_items == PyLen(Get(dataset, "data", List(<<>>)))
        segments == chart_type \in {Str("pie"), Str("doughnut")}
    IN IF ~HasKey(dataset, "backgroundColor") /\ segments /\ num_items < 0
       THEN [raised |-> TRUE, ds |-> dataset]
       ELSE
         LET coloured ==
               IF HasKey(dataset, "backgroundColor") THEN dataset
               ELSE IF segments
               THEN SetItem(dataset, "backgroundColor", SegmentColors(num_items))
               ELSE SetItem(dataset, "backgroundColor", Str("rgba(212, 175, 55, 0.6)"))
         IN [raised |-> FALSE,
             ds |-> DefaultBorderWidth(DefaultBorderColor(coloured))]

\* The loop over datasets: the elements as the loop leaves them.
RECURSIVE ThemeDatasets(_, _, _)
ThemeDatasets(chart_type, datasets, j) ==
  IF j > Len(datasets) THEN [raised |-> FALSE, items |-> datasets]
  ELSE LET r == ThemeDataset(chart_type, datasets[j])
       IN IF r.raised THEN [raised |-> TRUE, items |-> datasets]
          ELSE ThemeDatasets(chart_type, [datasets EXCEPT ![j] = r.ds], j + 1)

TitleBlock(chart) ==
  Dict([display |-> Bool(TRUE),
        text |-> Get(chart, "title", Str("Chart")),
        color |-> Str("#d4af37"),
        font |-> Dict([size |-> Int_(16), weight |-> Str("300")])])

LegendBlock ==
  Dict([display |-> Bool(TRUE),
        labels |-> Dict([color |-> Str("#ffffff"),
                         font |-> Dict([size |-> Int_(12)])])])

\* Apply theme-specific options: the options to store, or a raise.
ThemeOptions(chart) ==
  LET options == Get(chart, "options", EmptyDict)
  IN IF options.k # "dict"
     THEN [raised |-> TRUE, options |-> options]
     ELSE
       LET with_plugins == IF HasKey(options, "plugins") THEN options
                           ELSE SetItem(options, "plugins", EmptyDict)
           plugins == with_plugins.v["plugins"]
       IN IF PyIn("title", plugins) = "raise"
          THEN [raised |-> TRUE, options |-> options]
          ELSE IF plugins.k # "dict"
          THEN \* a list or a str: item assignment raises TypeError
               [raised |-> PyIn("title", plugins) = "no" \/ PyIn("legend", plugins) = "no",
                options |-> options]
          ELSE
            LET titled == IF HasKey(plugins, "title") THEN plugins
                          ELSE SetItem(plugins, "title", TitleBlock(chart))
                legended == IF HasKey(titled, "legend") THEN titled
                            ELSE SetItem(titled, "legend", LegendBlock)
            IN [raised |-> FALSE, options |-> SetItem(with_plugins, "plugins", legended)]

\* The body of the loop over charts for one element.
ThemeChart(chart) ==
  IF chart.k # "dict" THEN [raised |-> TRUE, chart |-> chart]  \* no .get
  ELSE
    LET chart_type == Get(chart, "type", Str("bar"))
        data == Get(chart, "data", EmptyDict)
    IN IF data.k # "dict" THEN [raised |-> TRUE, chart |-> chart]
       ELSE
         LET datasets == Get(data, "datasets", List(<<>>))
             it == PyIter(datasets)
         IN IF it.raised THEN [raised |-> TRUE, chart |-> chart]
            ELSE
              LET r == ThemeDatasets(chart_type, it.items, 1)
                  themed == IF /\ HasKey(chart, "data") /\ HasKey(data, "datasets")
                               /\ datasets.k = "list"
                            THEN SetItem(chart, "data",
                                         SetItem(data, "datasets", List(r.items)))
                            ELSE chart
              IN IF r.raised THEN [raised |-> TRUE, chart |-> themed]
                 ELSE LET o == ThemeOptions(themed)
                      IN IF o.raised THEN [raised |-> TRUE, chart |-> themed]
                         ELSE [raised |-> FALSE,
                               chart |-> SetItem(themed, "options", o.options)]

\* The loop over charts: the elements as the loop leaves them.
RECURSIVE ThemeCharts(_, _)
ThemeCharts(charts, i) ==
  IF i > Len(charts) THEN [raised |-> FALSE, items |-> charts]
  ELSE LET r == ThemeChart(charts[i])
       IN IF r.raised THEN [raised |-> TRUE, items |-> [charts EXCEPT ![i] = r.chart]]
          ELSE ThemeCharts([charts EXCEPT ![i] = r.chart], i + 1)

apply_visualization_rules(config) ==
  IF config.k # "dict" \/ ~HasKey(config, "charts")
  THEN [raised |-> FALSE, doc |-> config]
  ELSE
    LET charts == config.v["charts"]
        it == PyIter(charts)
    IN IF it.raised THEN [raised |-> TRUE, doc |-> config]
       ELSE LET r == ThemeCharts(it.items, 1)
            IN [raised |-> r.raised,
                doc |-> IF charts.k = "list"
                        THEN SetItem(config, "charts", List(r.items))
                        ELSE config]

(***************************************************************************)
(* The documents the functions are applied to.  Every position the code    *)
(* inspects is varied over well-formed and malformed values; lists longer  *)
(* than one are drawn from smaller pools to keep the set finite and small. *)
(***************************************************************************)
MaxLabels == 2

MaxDatasets == 2

MaxCharts == 2

\* all sequences over S of a length in lo..hi
SeqsOf(S, lo, hi) == UNION { [1..n -> S] : n \in lo..hi }

Without(d, key) == Dict([a \in DOMAIN d.v \ {key} |-> d.v[a]])

Labels(n) == List([i \in 1..n |-> Str("Q" \o ToString(i))])

NumberElems == {Int_(1), Float(2)}

OddElems == {Null, Bool(TRUE), Str("7"), Str("a"), HugeInt}

\* data arrays: all arrays of numbers up to one longer than the longest
\* labels, and those with one element that is no plain number
DataLists ==
  SeqsOf(NumberElems, 0, MaxLabels + 1)
  \cup { [i \in 1..n |-> IF i = p THEN e ELSE Int_(i)] :
           <<n, p, e>> \in { t \in (1..(MaxLabels + 1)) \X (1..(MaxLabels + 1)) \X OddElems :
                               t[2] <= t[1] } }

Dataset(label, data) == Dict([label |-> Str(label), data |-> List(data)])

OddDatasets ==
  { Without(Dataset("A", <<Int_(1)>>), "label"),
    Without(Dataset("A", <<Int_(1), Int_(2)>>), "data"),
    SetItem(Dataset("A", <<>>), "data", Null),
    SetItem(Dataset("A", <<Int_(1)>>), "label", Int_(5)),
    Str("xy"), Null }

SmallDatasets ==
  { Dataset("B", <<Int_(3)>>), Dataset("C", <<Int_(4), Int_(5)>>),
    Dataset("D", <<Str("a")>>), Null }

DatasetsValues ==
  { List(<<ds>>) : ds \in { Dataset("A", d) : d \in DataLists } \cup OddDatasets }
  \cup { List(dss) : dss \in SeqsOf(SmallDatasets, 2, MaxDatasets) }
  \cup { List(<<>>), Null, Str("xy"), Dict([a |-> Dataset("A", <<Int_(1)>>)]) }

LabelsValues ==
  { Labels(n) : n \in 1..MaxLabels }
  \cup { List(<<>>), Null, Str("Q1"), List(<<Int_(1), Bool(TRUE)>>) }

Chart(type, title, data) == Dict([type |-> type, title |-> title, data |-> data])

Data(labels, datasets) == Dict([labels |-> labels, datasets |-> datasets])

BaseData == Data(Labels(2), List(<<Dataset("A", <<Int_(1), Int_(2)>>)>>))

ShortData == Data(Labels(2), List(<<Dataset("A", <<Int_(1)>>)>>))

BaseChart == Chart(Str("bar"), Str("T"), BaseData)

\* charts that differ from the base chart in one of type, title, data, options
OddCharts ==
  { Chart(t, Str("T"), d) : t \in {Str("pie"), Str("heatmap"), Int_(3)}, d \in {BaseData, ShortData} }
  \cup { Without(Chart(t, Str("T"), d), "title") :
           t \in {Str("bar"), Str("polarArea"), Str("heatmap"), Int_(3), Null},
           d \in {BaseData, ShortData} }
  \cup { Chart(Str("bar"), t, d) : t \in {Str(""), Int_(3)}, d \in {BaseData, ShortData} }
  \cup { Chart(Str("bar"), Str("T"), d) :
           d \in { Null, Int_(3), EmptyDict, Str("labels datasets"), Str("xy"),
                   List(<<Str("labels"), Str("datasets")>>), List(<<>>),
                   Without(BaseData, "labels"), Without(BaseData, "datasets") } }
  \cup { Without(BaseChart, "type"), Without(BaseChart, "data"), Null, Str("xy"),
         List(<<>>), SetItem(BaseChart, "options", Null),
         SetItem(Chart(Str("bar"), Str("T"), ShortData), "options", EmptyDict) }

RepairCharts ==
  { Chart(Str("bar"), Str("T"), Data(l, d)) : l \in LabelsValues, d \in DatasetsValues }
  \cup OddCharts

SmallCharts ==
  { BaseChart, Chart(Str("pie"), Str("U"), ShortData),
    Chart(Str("line"), Str("V"), Data(Labels(1), List(<<Dataset("D", <<Str("a")>>)>>))),
    Chart(Str("bar"), Str("W"), Null),
    Chart(Str("bar"), Str("X"),
          Data(Labels(1), List(<<Dataset("B", <<Int_(3)>>), Dataset("C", <<Int_(4), Int_(5)>>)>>))) }

Doc(charts) == Dict([explanation |-> Str("why"), charts |-> charts])

OddDocs ==
  { Null, Int_(3), Str("xy"), List(<<>>), List(<<BaseChart>>), EmptyDict,
    Without(Doc(List(<<BaseChart>>)), "charts"),
    Without(Doc(List(<<BaseChart>>)), "explanation"),
    SetItem(Doc(List(<<BaseChart>>)), "explanation", Str("")),
    SetItem(Doc(List(<<BaseChart>>)), "explanation", Null),
    Doc(Null), Doc(Int_(3)), Doc(Str("xy")), Doc(Str("")), Doc(EmptyDict),
    Doc(Dict([a |-> BaseChart])), Doc(List(<<>>)) }

\* documents at and just over the schema's maxItems
ManyCharts == { Doc(List([i \in 1..n |-> BaseChart])) : n \in {maxItems, maxItems + 1} }

RepairInputs ==
  { Doc(List(<<c>>)) : c \in RepairCharts }
  \cup { Doc(List(cs)) : cs \in SeqsOf(SmallCharts, 2, MaxCharts) }
  \cup OddDocs \cup ManyCharts

\* Valid documents whose presentation fields vary: the inputs of theming.
StyleSets == SUBSET {"backgroundColor", "borderColor", "borderWidth"}

Styled(dataset, keys, bg) ==
  Dict([a \in DOMAIN dataset.v \cup keys |->
          CASE a = "backgroundColor" -> bg
            [] a = "borderColor" -> Str("#000000")
            [] a = "borderWidth" -> Int_(1)
            [] OTHER -> dataset.v[a]])

BackgroundValues == {Str("red"), List(<<Str("red"), Str("blue")>>)}

StyledDatasets(n) ==
  { Styled(Dataset("A", [i \in 1..n |-> Int_(i)]), keys, bg) :
      keys \in StyleSets, bg \in BackgroundValues }

PluginsValues ==
  { EmptyDict,
    Dict([title |-> Dict([text |-> Str("mine")])]),
    Dict([legend |-> Dict([display |-> Bool(FALSE)])]),
    Dict([title |-> Dict([text |-> Str("mine")]), legend |-> Dict([display |-> Bool(FALSE)])]),
    Dict([tooltip |-> Dict([enabled |-> Bool(TRUE)])]),
    Null, Int_(3), Str("xy"), Str("title"), Str("title legend"),
    List(<<>>), List(<<Str("title")>>), List(<<Str("title"), Str("legend")>>) }

OptionsValues ==
  { EmptyDict, Dict([responsive |-> Bool(TRUE)]) }
  \cup { Dict([plugins |-> p]) : p \in PluginsValues }
  \cup { Dict([responsive |-> Bool(TRUE), plugins |-> p]) :
           p \in {EmptyDict, Dict([legend |-> Dict([display |-> Bool(FALSE)])])} }

ThemeCharts1 ==
  { Chart(Str(t), Str("T"), Data(Labels(n), List(<<ds>>))) :
      <<t, n, ds>> \in { x \in {"bar", "pie", "doughnut"} \X (1..MaxLabels) \X StyledDatasets(MaxLabels)
                            \cup {"bar", "pie", "doughnut"} \X {1} \X StyledDatasets(1) :
                          Len(x[3].v["data"].v) = x[2] } }

ThemeChartsAll ==
  ThemeCharts1
  \cup { SetItem(c, "options", o) :
           c \in { Chart(Str(t), Str("T"), BaseData) : t \in {"bar", "pie"} },
           o \in OptionsValues }

SmallThemeCharts ==
  { BaseChart,
    SetItem(Chart(Str("pie"), Str("U"), BaseData), "options", Dict([plugins |-> Null])),
    SetItem(Chart(Str("line"), Str("V"), BaseData), "options",
            Dict([plugins |-> Dict([legend |-> Dict([display |-> Bool(FALSE)])])])) }

\* charts with no data point and with one more than the palette has colours
PaletteCharts ==
  { Chart(Str(t), Str("T"), Data(Labels(n), List(<<Dataset("A", [i \in 1..n |-> Int_(i)])>>))) :
      t \in {"pie", "doughnut", "radar"}, n \in {0, Len(colors) + 1} }

ThemeInputs ==
  { Doc(List(<<c>>)) : c \in ThemeChartsAll \cup PaletteCharts }
  \cup { Doc(List(cs)) : cs \in SeqsOf(SmallThemeCharts, 2, MaxCharts) }

Inputs == RepairInputs \cup ThemeInputs

(***************************************************************************)
(* SpecPure: the three functions applied to one document.                  *)
(***************************************************************************)
NoVerdict == [valid |-> FALSE, error |-> NoError]

NoOutcome == [raised |-> FALSE, doc |-> Null]

ActiveIdle ==
  /\ configs = <<>> /\ spc = <<>> /\ model_name = <<>> /\ loaded = <<>>
  /\ named = {} /\ ncalls = <<>>

ChatIdle ==
  /\ pc = <<>> /\ session = <<>> /\ result = <<>> /\ conv = <<>> /\ exc = <<>>
  /\ conversations = {} /\ jobs = <<>> /\ messages = {}
  /\ visualizations = {} /\ job_history = <<>> /\ calls = <<>>

PureInit ==
  /\ input \in Inputs
  /\ fpc = "start"
  /\ v1 = NoVerdict /\ v2 = NoVerdict
  /\ out1 = NoOutcome /\ out2 = NoOutcome
  /\ ChatIdle
  /\ ActiveIdle

\* is_valid, error_msg = validator.validate_config(result)
Validate ==
  /\ fpc = "start"
  /\ v1' = validate_config(input)
  /\ fpc' = "validated"
  /\ UNCHANGED <<input, out1, v2, out2>>
  /\ UNCHANGED chat_vars
  /\ UNCHANGED active_vars

\* validate_config called again on the same document
ValidateAgain ==
  /\ fpc = "validated"
  /\ \E call \in {validate_config_call(input)} :
       /\ v2' = [valid |-> call.valid, error |-> call.error]
       /\ out1' = [raised |-> call.raised # "", doc |-> call.doc]
  /\ fpc' = "validated2"
  /\ UNCHANGED <<input, v1, out2>>
  /\ UNCHANGED chat_vars
  /\ UNCHANGED active_vars

\* result = validator.fix_common_issues(result)
Repair ==
  /\ fpc = "validated"
  /\ out1' = fix_common_issues(input)
  /\ fpc' = "repaired"
  /\ UNCHANGED <<input, v1, v2, out2>>
  /\ UNCHANGED chat_vars
  /\ UNCHANGED active_vars

\* is_valid, error_msg = validator.validate_config(result), on the repaired document
Revalidate ==
  /\ fpc = "repaired"
  /\ ~out1.raised
  /\ v2' = validate_config(out1.doc)
  /\ fpc' = "revalidated"
  /\ UNCHANGED <<input, v1, out1, out2>>
  /\ UNCHANGED chat_vars
  /\ UNCHANGED active_vars

\* fix_common_issues on its own output
RepairAgain ==
  /\ fpc = "revalidated"
  /\ out2' = fix_common_issues(out1.doc)
  /\ fpc' = "repaired2"
  /\ UNCHANGED <<input, v1, out1, v2>>
  /\ UNCHANGED chat_vars
  /\ UNCHANGED active_vars

\* result = apply_visualization_rules(result)
Theme ==
  /\ fpc = "validated"
  /\ out1' = apply_visualization_rules(input)
  /\ fpc' = "themed"
  /\ UNCHANGED <<input, v1, v2, out2>>
  /\ UNCHANGED chat_vars
  /\ UNCHANGED active_vars

\* apply_visualization_rules on the document the first call left
ThemeAgain ==
  /\ fpc = "themed"
  /\ out2' = apply_visualization_rules(out1.doc)
  /\ fpc' = "themed2"
  /\ UNCHANGED <<input, v1, out1, v2>>
  /\ UNCHANGED chat_vars
  /\ UNCHANGED active_vars

\* validate_config on the document apply_visualization_rules returned
ValidateThemed ==
  /\ fpc = "themed"
  /\ ~out1.raised
  /\ v2' = validate_config(out1.doc)
  /\ fpc' = "themed_validated"
  /\ UNCHANGED <<input, v1, out1, out2>>
  /\ UNCHANGED chat_vars
  /\ UNCHANGED active_vars

PureNext ==
  \/ Validate \/ ValidateAgain \/ Repair \/ Revalidate \/ RepairAgain
  \/ Theme \/ ThemeAgain \/ ValidateThemed

SpecPure == PureInit /\ [][PureNext]_vars

(***************************************************************************)
(* Properties of the three functions, checked under SpecPure.              *)
(***************************************************************************)
\* The charts of a document and the datasets of a chart, where they are lists.
ChartsOf(doc) ==
  IF doc.k = "dict" /\ HasKey(doc, "charts") /\ doc.v["charts"].k = "list"
  THEN doc.v["charts"].v ELSE <<>>

DatasetsOf(chart) ==
  IF /\ chart.k = "dict" /\ HasKey(chart, "data") /\ chart.v["data"].k = "dict"
     /\ HasKey(chart.v["data"], "datasets") /\ chart.v["data"].v["datasets"].k = "list"
  THEN chart.v["data"].v["datasets"].v ELSE <<>>

PluginsOf(chart) ==
  IF /\ chart.k = "dict" /\ HasKey(chart, "options") /\ chart.v["options"].k = "dict"
     /\ HasKey(chart.v["options"], "plugins") /\ chart.v["options"].v["plugins"].k = "dict"
  THEN chart.v["options"].v["plugins"].v ELSE EmptyMap

\* Python's ==: numbers compare by value whatever their type (0 == 0.0,
\* True == 1), lists element by element, dicts key by key.
NumVal(x) == IF x.k = "bool" THEN (IF x.v THEN 1 ELSE 0) ELSE x.v

RECURSIVE PyEq(_, _)
PyEq(a, b) ==
  CASE a.k \in {"int", "float", "bool"} /\ b.k \in {"int", "float", "bool"} ->
         NumVal(a) = NumVal(b)
    [] a.k = "list" /\ b.k = "list" ->
         Len(a.v) = Len(b.v) /\ \A i \in 1..Len(a.v) : PyEq(a.v[i], b.v[i])
    [] a.k = "dict" /\ b.k = "dict" ->
         DOMAIN a.v = DOMAIN b.v /\ \A key \in DOMAIN a.v : PyEq(a.v[key], b.v[key])
    [] OTHER -> a = b

\* C1: every document validate_config accepts has between 1 and 10 charts,
\* each of a type of the enum, each dataset's data as long as its chart's
\* labels, and every data element a number, never text, null or a boolean.
C1_ValidDocumentInvariants ==
  (fpc # "start" /\ v1.valid) =>
    /\ input.k = "dict" /\ "charts" \in DOMAIN input.v /\ input.v["charts"].k = "list"
    /\ Len(input.v["charts"].v) \in 1..10
    /\ \A i \in 1..Len(input.v["charts"].v) :
         LET chart == input.v["charts"].v[i]
         IN /\ chart.v["type"] \in { Str(t) : t \in {"bar", "line", "pie", "doughnut",
                                                    "radar", "polarArea", "scatter", "bubble"} }
            /\ \A j \in 1..Len(chart.v["data"].v["datasets"].v) :
                 LET data == chart.v["data"].v["datasets"].v[j].v["data"].v
                 IN /\ Len(data) = Len(chart.v["data"].v["labels"].v)
                    /\ \A e \in 1..Len(data) : data[e].k \in {"int", "hugeint", "float", "nan"}

C1_Witness == fpc = "validated" /\ v1.valid /\ Len(input.v["charts"].v) = 10

\* C2: fix_common_issues returns a document, without raising, for every input.
C2_RepairNeverRaises == fpc = "repaired" => ~out1.raised

\* C3: apply_visualization_rules returns without raising on every document
\* validate_config accepts, whatever its charts' options hold.
C3_ThemingTotalOnValid == (fpc = "themed" /\ v1.valid) => ~out1.raised

\* The documents C4 is about: they conform to the schema and some dataset's
\* data is not as long as its chart's labels.
HasLengthMismatch(doc) ==
  \E i \in 1..Len(ChartsOf(doc)) : \E j \in 1..Len(DatasetsOf(ChartsOf(doc)[i])) :
    Len(DatasetsOf(ChartsOf(doc)[i])[j].v["data"].v)
      # Len(ChartsOf(doc)[i].v["data"].v["labels"].v)

HasHugeData(doc) ==
  \E i \in 1..Len(ChartsOf(doc)) : \E j \in 1..Len(DatasetsOf(ChartsOf(doc)[i])) :
    LET data == DatasetsOf(ChartsOf(doc)[i])[j].v["data"].v
    IN \E e \in 1..Len(data) : data[e].k = "hugeint"

\* C4 as stated: a schema-conformant document whose only violations are
\* length mismatches is rejected, and accepted once repaired.
C4_RepairMakesValid ==
  (fpc \in {"repaired", "revalidated"} /\ CHART_CONFIG_SCHEMA(input) /\ HasLengthMismatch(input)) =>
    /\ ~v1.valid
    /\ ~out1.raised
    /\ fpc = "revalidated" => v2.valid

\* C4 holds of the documents none of whose data elements is an int beyond the
\* range of float: short data is padded with 0 and long data truncated, the
\* elements kept having their values.  float() raises OverflowError on the
\* others, and fix_common_issues drops their dataset.
C4_RepairMakesValidInFloatRange ==
  (/\ fpc \in {"repaired", "revalidated"} /\ CHART_CONFIG_SCHEMA(input)
   /\ HasLengthMismatch(input) /\ ~HasHugeData(input)) =>
    /\ ~v1.valid
    /\ ~out1.raised
    /\ fpc = "revalidated" => v2.valid
    /\ Len(ChartsOf(out1.doc)) = Len(ChartsOf(input))
    /\ \A i \in 1..Len(ChartsOf(input)) :
         LET before == ChartsOf(input)[i]
             after == ChartsOf(out1.doc)[i]
             L == Len(before.v["data"].v["labels"].v)
         IN /\ Len(DatasetsOf(after)) = Len(DatasetsOf(before))
            /\ \A j \in 1..Len(DatasetsOf(before)) :
                 LET old == DatasetsOf(before)[j].v["data"].v
                     new == DatasetsOf(after)[j].v["data"].v
                 IN /\ Len(new) = L
                    /\ \A e \in 1..L :
                         NumVal(new[e]) = IF e <= Len(old) THEN NumVal(old[e]) ELSE 0

C4_Witness ==
  /\ fpc = "revalidated" /\ CHART_CONFIG_SCHEMA(input) /\ ~HasHugeData(input)
  /\ ~v1.valid /\ v1.error.kind = "length" /\ v1.error.data_length < v1.error.labels_length
  /\ v2.valid

\* C5: theming is idempotent on every document validate_config accepts: a
\* second application leaves the document the first one left, and ends the
\* way the first one ended.
C5_ThemingIdempotent == (fpc = "themed2" /\ v1.valid) => out2 = out1

C5_Witness == fpc = "themed2" /\ v1.valid /\ ~out1.raised /\ out1.doc # input

\* C6: theming overwrites nothing: the charts and their datasets stay in
\* place, every field a dataset had (backgroundColor, borderColor and
\* borderWidth among them) and every entry under options.plugins keeps its
\* value.
C6_ThemingNonDestructive ==
  fpc = "themed" =>
    LET before == ChartsOf(input)
        after == ChartsOf(out1.doc)
    IN /\ Len(after) = Len(before)
       /\ \A i \in 1..Len(before) :
            /\ after[i].k = before[i].k
            /\ before[i].k # "dict" => after[i] = before[i]
            /\ before[i].k = "dict" =>
                 \A key \in DOMAIN before[i].v \ {"data", "options"} :
                   key \in DOMAIN after[i].v /\ after[i].v[key] = before[i].v[key]
            /\ Len(DatasetsOf(after[i])) = Len(DatasetsOf(before[i]))
            /\ \A j \in 1..Len(DatasetsOf(before[i])) :
                 LET old == DatasetsOf(before[i])[j]
                     new == DatasetsOf(after[i])[j]
                 IN IF old.k = "dict"
                    THEN new.k = "dict" /\ \A key \in DOMAIN old.v :
                           key \in DOMAIN new.v /\ new.v[key] = old.v[key]
                    ELSE new = old
            /\ \A key \in DOMAIN PluginsOf(before[i]) :
                 key \in DOMAIN PluginsOf(after[i])
                   /\ PluginsOf(after[i])[key] = PluginsOf(before[i])[key]

C6_Witness ==
  /\ fpc = "themed" /\ ~out1.raised /\ out1.doc # input
  /\ \E i \in 1..Len(ChartsOf(input)) :
       /\ "legend" \in DOMAIN PluginsOf(ChartsOf(input)[i])
       /\ "title" \notin DOMAIN PluginsOf(ChartsOf(input)[i])

\* C7: fix_common_issues is idempotent: applied to a document it returned, it
\* returns a document equal to it.
C7_RepairIdempotent ==
  fpc = "repaired2" => ~out2.raised /\ PyEq(out2.doc, out1.doc)

C7_Witness ==
  /\ fpc = "repaired2" /\ ~out2.raised /\ ~PyEq(out1.doc, input)
  /\ Len(ChartsOf(out1.doc)) > 0

Mismatches(doc) ==
  { p \in (1..Len(ChartsOf(doc))) \X (1..MaxDatasets + 1) :
      /\ p[2] <= Len(DatasetsOf(ChartsOf(doc)[p[1]]))
      /\ Len(DatasetsOf(ChartsOf(doc)[p[1]])[p[2]].v["data"].v)
           # Len(ChartsOf(doc)[p[1]].v["data"].v["labels"].v) }

FirstMismatch(doc) ==
  CHOOSE p \in Mismatches(doc) :
    \A q \in Mismatches(doc) : p[1] < q[1] \/ (p[1] = q[1] /\ p[2] <= q[2])

\* C13: on a schema-conformant document with a dataset whose data is not as
\* long as its chart's labels, validate_config returns false with a message
\* made of the data length, the labels length and the chart title of the
\* first such dataset in document order.
C13_FirstMismatchReported ==
  (fpc = "validated" /\ CHART_CONFIG_SCHEMA(input) /\ Mismatches(input) # {}) =>
    LET p == FirstMismatch(input)
        chart == ChartsOf(input)[p[1]]
    IN /\ ~v1.valid
       /\ v1.error.kind = "length"
       /\ v1.error.data_length = Len(DatasetsOf(chart)[p[2]].v["data"].v)
       /\ v1.error.labels_length = Len(chart.v["data"].v["labels"].v)
       /\ v1.error.title = chart.v["title"].v

C13_Witness ==
  /\ fpc = "validated" /\ CHART_CONFIG_SCHEMA(input)
  /\ Cardinality(Mismatches(input)) > 1
  /\ FirstMismatch(input) # <<1, 1>>
  /\ v1.error.kind = "length"

\* The number a data element stands for once coerced: null is 0, a bool 0 or
\* 1, a numeric string the number it spells.
CoercedVal(x) ==
  CASE x.k = "null" -> 0
    [] x.k = "str"  -> FloatLiterals[x.v]
    [] OTHER        -> NumVal(x)

\* new is old reconciled with L labels: the first L coerced elements of old,
\* followed by zeros up to length L.
Reconciled(new, old, L) ==
  /\ new.k = "list" /\ old.k = "list"
  /\ Len(new.v) = L
  /\ \A e \in 1..L :
       /\ new.v[e].k \in {"int", "float"}
       /\ e <= Len(old.v) =>
            /\ old.v[e].k \in {"null", "bool", "int", "float"}
                 \/ (old.v[e].k = "str" /\ old.v[e].v \in DOMAIN FloatLiterals)
            /\ new.v[e].v = CoercedVal(old.v[e])
       /\ e > Len(old.v) => new.v[e].v = 0

\* the datasets (those that are mappings with a data key) of the charts of a
\* document, whatever the shape of the document
InputDatasets(doc) ==
  UNION { { DatasetsOf(ChartsOf(doc)[i])[j] : j \in 1..Len(DatasetsOf(ChartsOf(doc)[i])) } :
          i \in 1..Len(ChartsOf(doc)) }

\* C14: after Repair, every dataset of every surviving chart has a data
\* sequence as long as its chart's labels, all of numbers: the first L coerced
\* elements of the data it had, followed by zeros where that was shorter.
C14_RepairedDataMatchesLabels ==
  (fpc = "repaired" /\ ~out1.raised /\ input.k = "dict") =>
    \A i \in 1..Len(ChartsOf(out1.doc)) :
      LET chart == ChartsOf(out1.doc)[i]
          L == PyLen(chart.v["data"].v["labels"])
      IN /\ L >= 0
         /\ DatasetsOf(chart) # <<>>
         /\ \A j \in 1..Len(DatasetsOf(chart)) :
              LET ds == DatasetsOf(chart)[j]
              IN /\ ds.k = "dict" /\ HasKey(ds, "data")
                 /\ \E old \in InputDatasets(input) :
                      /\ old.k = "dict" /\ HasKey(old, "data")
                      /\ Reconciled(ds.v["data"], old.v["data"], L)

C14_Witness ==
  /\ fpc = "repaired" /\ ~out1.raised /\ Len(ChartsOf(out1.doc)) = 1
  /\ Len(ChartsOf(input)) = 1
  /\ \E old \in InputDatasets(input) :
       /\ old.k = "dict" /\ HasKey(old, "data") /\ old.v["data"].k = "list"
       /\ Len(old.v["data"].v) = 3
       /\ PyLen(ChartsOf(out1.doc)[1].v["data"].v["labels"]) = 2
       /\ old.v["data"].v[1].k = "null"
       /\ old.v["data"].v[2] # old.v["data"].v[3]

\* A chart that reaches the loop over its datasets: a mapping with type and
\* data, whose data has labels and datasets.
ReachesDatasets(chart) ==
  /\ chart.k = "dict" /\ HasKey(chart, "type") /\ HasKey(chart, "data")
  /\ PyIn("labels", chart.v["data"]) = "yes"
  /\ PyIn("datasets", chart.v["data"]) = "yes"

\* A data element that can be coerced to a number
Coercible(x) ==
  \/ x.k \in {"null", "bool", "int", "float", "nan"}
  \/ x.k = "str" /\ x.v \in DOMAIN FloatLiterals

\* A dataset all of whose data elements can be coerced
AllCoercible(ds) ==
  /\ ds.k = "dict" /\ HasKey(ds, "data") /\ ds.v["data"].k = "list"
  /\ \A e \in 1..Len(ds.v["data"].v) : Coercible(ds.v["data"].v[e])

\* the positions of the datasets of a chart that can be coerced, and of the
\* charts of a document that have one
CoercibleAt(chart) == { j \in 1..Len(DatasetsOf(chart)) : AllCoercible(DatasetsOf(chart)[j]) }

KeptAt(doc) ==
  { i \in 1..Len(ChartsOf(doc)) :
      ReachesDatasets(ChartsOf(doc)[i]) /\ CoercibleAt(ChartsOf(doc)[i]) # {} }

\* the n-th smallest element of a set of positions
Nth(S, n) == CHOOSE x \in S : Cardinality({ y \in S : y <= x }) = n

\* C15: Repair removes a dataset with an element that cannot be coerced, and
\* no other dataset that has a data list (null elements become 0); of the
\* charts that reach the loop over datasets it removes exactly those none of
\* whose datasets survive, so no chart of its output has an empty datasets list.
C15_DatasetsDroppedWhole ==
  (fpc = "repaired" /\ ~out1.raised /\ input.k = "dict") =>
    /\ Len(ChartsOf(out1.doc)) = Cardinality(KeptAt(input))
    /\ \A n \in 1..Len(ChartsOf(out1.doc)) :
         LET before == ChartsOf(input)[Nth(KeptAt(input), n)]
             after == ChartsOf(out1.doc)[n]
         IN /\ DatasetsOf(after) # <<>>
            /\ Len(DatasetsOf(after)) = Cardinality(CoercibleAt(before))
            /\ \A m \in 1..Len(DatasetsOf(after)) :
                 LET old == DatasetsOf(before)[Nth(CoercibleAt(before), m)]
                     new == DatasetsOf(after)[m]
                 IN \A e \in 1..Len(new.v["data"].v) :
                      e <= Len(old.v["data"].v) =>
                        new.v["data"].v[e].v = CoercedVal(old.v["data"].v[e])

C15_Witness ==
  /\ fpc = "repaired" /\ ~out1.raised /\ input.k = "dict"
  /\ \E i \in 1..Len(ChartsOf(input)) :
       /\ Len(DatasetsOf(ChartsOf(input)[i])) = 2
       /\ Cardinality(CoercibleAt(ChartsOf(input)[i])) = 1
       /\ Len(ChartsOf(out1.doc)) = 1
       /\ Len(DatasetsOf(ChartsOf(out1.doc)[1])) = 1

\* new is the dataset old, but for its data and a label it lacked
DatasetFrom(new, old) ==
  /\ new.k = "dict" /\ old.k = "dict"
  /\ DOMAIN new.v = DOMAIN old.v \cup {"label"}
  /\ \A key \in DOMAIN old.v \ {"data"} : new.v[key] = old.v[key]

\* new[m..] is a subsequence of old[j..], dataset by dataset
RECURSIVE DatasetsEmbed(_, _, _, _)
DatasetsEmbed(new, old, m, j) ==
  IF m > Len(new) THEN TRUE
  ELSE IF j > Len(old) THEN FALSE
  ELSE IF DatasetFrom(new[m], old[j]) THEN DatasetsEmbed(new, old, m + 1, j + 1)
  ELSE DatasetsEmbed(new, old, m, j + 1)

\* new is the chart old with the type and the labels it had, a subsequence of
\* its datasets, and nothing added but a title or options it lacked
ChartFrom(new, old) ==
  /\ new.k = "dict" /\ old.k = "dict"
  /\ DOMAIN old.v \subseteq DOMAIN new.v
  /\ DOMAIN new.v \subseteq DOMAIN old.v \cup {"title", "options"}
  /\ \A key \in DOMAIN old.v \ {"data"} : new.v[key] = old.v[key]
  /\ HasKey(old, "type") /\ HasKey(old, "data")
  /\ new.v["data"].k = "dict" /\ old.v["data"].k = "dict"
  /\ DOMAIN new.v["data"].v = DOMAIN old.v["data"].v
  /\ \A key \in DOMAIN old.v["data"].v \ {"datasets"} :
       new.v["data"].v[key] = old.v["data"].v[key]
  /\ HasKey(old.v["data"], "labels")
  /\ DatasetsEmbed(DatasetsOf(new), DatasetsOf(old), 1, 1)

\* new[n..] is a subsequence of old[i..], chart by chart
RECURSIVE ChartsEmbed(_, _, _, _)
ChartsEmbed(new, old, n, i) ==
  IF n > Len(new) THEN TRUE
  ELSE IF i > Len(old) THEN FALSE
  ELSE IF ChartFrom(new[n], old[i]) THEN ChartsEmbed(new, old, n + 1, i + 1)
  ELSE ChartsEmbed(new, old, n, i + 1)

\* C16: the charts Repair returns are a subsequence of the input charts in
\* their order, each with the type and the labels it had and with a
\* subsequence of its datasets in their order.
C16_RepairOnlyRemoves ==
  (fpc = "repaired" /\ ~out1.raised /\ input.k = "dict") =>
    /\ out1.doc.k = "dict" /\ HasKey(out1.doc, "charts") /\ out1.doc.v["charts"].k = "list"
    /\ ChartsEmbed(ChartsOf(out1.doc), ChartsOf(input), 1, 1)

C16_Witness ==
  /\ fpc = "repaired" /\ ~out1.raised
  /\ Len(ChartsOf(input)) = 2 /\ Len(ChartsOf(out1.doc)) = 1
  /\ ~ChartFrom(ChartsOf(out1.doc)[1], ChartsOf(input)[1])
  /\ ChartFrom(ChartsOf(out1.doc)[1], ChartsOf(input)[2])
  /\ ChartsOf(out1.doc)[1] # ChartsOf(input)[2]

\* A mapping chart entry that has data, with labels and a dataset that can be
\* coerced, but no type
TypelessWithData(chart) ==
  /\ chart.k = "dict" /\ ~HasKey(chart, "type") /\ HasKey(chart, "data")
  /\ chart.v["data"].k = "dict"
  /\ HasKey(chart.v["data"], "labels") /\ chart.v["data"].v["labels"].k = "list"
  /\ CoercibleAt(chart) # {}

\* C17, as stated: Repair does not drop a mapping chart entry that has data
\* (with labels and a dataset that can be coerced) but no type.
C17_TypelessChartKept ==
  (fpc = "repaired" /\ ~out1.raised /\ input.k = "dict") =>
    \A i \in 1..Len(ChartsOf(input)) :
      TypelessWithData(ChartsOf(input)[i]) =>
        \E n \in 1..Len(ChartsOf(out1.doc)) :
          LET chart == ChartsOf(out1.doc)[n]
          IN /\ chart.k = "dict" /\ ~HasKey(chart, "type") /\ HasKey(chart, "data")
             /\ chart.v["data"].v["labels"] = ChartsOf(input)[i].v["data"].v["labels"]

\* C17, amended: Repair's first drop rule removes a chart entry that is not
\* a mapping, or lacks type, or lacks data: every chart of its output has
\* both, and a mapping chart entry that has data but no type is dropped.
C17_ChartsLackingTypeOrDataDropped ==
  (fpc = "repaired" /\ ~out1.raised /\ input.k = "dict") =>
    /\ \A n \in 1..Len(ChartsOf(out1.doc)) :
         LET chart == ChartsOf(out1.doc)[n]
         IN chart.k = "dict" /\ HasKey(chart, "type") /\ HasKey(chart, "data")
    /\ Len(ChartsOf(out1.doc)) <=
         Cardinality({ i \in 1..Len(ChartsOf(input)) :
                         LET chart == ChartsOf(input)[i]
                         IN chart.k = "dict" /\ HasKey(chart, "type") /\ HasKey(chart, "data") })

C17_Witness ==
  /\ fpc = "repaired" /\ ~out1.raised /\ input.k = "dict"
  /\ Len(ChartsOf(input)) = 1 /\ TypelessWithData(ChartsOf(input)[1])
  /\ HasKey(out1.doc, "charts") /\ out1.doc.v["charts"] = List(<<>>)

\* C18: when the input of Repair is not a mapping, or is a mapping without a
\* charts key, the document Repair returns carries an empty charts list.
C18_NoChartsGivesEmptyList ==
  (fpc = "repaired" /\ ~out1.raised /\ (input.k # "dict" \/ ~HasKey(input, "charts"))) =>
    /\ out1.doc.k = "dict" /\ HasKey(out1.doc, "charts")
    /\ out1.doc.v["charts"] = List(<<>>)

\* The fixed palette, in its order, and the colour of the other chart types
Palette ==
  << "rgba(212, 175, 55, 0.8)", "rgba(255, 215, 0, 0.8)", "rgba(212, 175, 55, 0.6)",
     "rgba(255, 215, 0, 0.6)", "rgba(212, 175, 55, 0.4)", "rgba(255, 215, 0, 0.4)" >>

\* the datasets Theming has to colour: mappings without backgroundColor whose
\* data, if any, is a list
Uncoloured(doc) ==
  { p \in (1..Len(ChartsOf(doc))) \X (1..MaxDatasets + 1) :
      /\ p[2] <= Len(DatasetsOf(ChartsOf(doc)[p[1]]))
      /\ LET ds == DatasetsOf(ChartsOf(doc)[p[1]])[p[2]]
         IN /\ ds.k = "dict" /\ ~HasKey(ds, "backgroundColor")
            /\ HasKey(ds, "data") => ds.v["data"].k = "list" }

DataPoints(ds) == IF HasKey(ds, "data") THEN Len(ds.v["data"].v) ELSE 0

\* C19: to a dataset without backgroundColor Theming assigns, in a pie or
\* doughnut chart, a sequence of exactly n colours, n the number of data
\* points, the i-th (from 0) being entry i mod 6 of the palette; in every
\* other chart type the one fixed colour.
C19_BackgroundColors ==
  (fpc = "themed" /\ ~out1.raised) =>
    \A p \in Uncoloured(input) :
      LET chart == ChartsOf(input)[p[1]]
          n == DataPoints(DatasetsOf(chart)[p[2]])
          new == DatasetsOf(ChartsOf(out1.doc)[p[1]])[p[2]]
      IN /\ HasKey(new, "backgroundColor")
         /\ IF HasKey(chart, "type") /\ chart.v["type"] \in {Str("pie"), Str("doughnut")}
            THEN /\ new.v["backgroundColor"].k = "list"
                 /\ Len(new.v["backgroundColor"].v) = n
                 /\ \A i \in 0..(n - 1) :
                      new.v["backgroundColor"].v[i + 1] = Str(Palette[(i % 6) + 1])
            ELSE new.v["backgroundColor"] = Str("rgba(212, 175, 55, 0.6)")

C19_Witness ==
  /\ fpc = "themed" /\ ~out1.raised /\ v1.valid
  /\ \E p \in Uncoloured(input) :
       /\ ChartsOf(input)[p[1]].v["type"] = Str("doughnut")
       /\ DataPoints(DatasetsOf(ChartsOf(input)[p[1]])[p[2]]) > 6
       /\ DatasetsOf(ChartsOf(out1.doc)[p[1]])[p[2]].v["backgroundColor"].v[7]
            = Str("rgba(212, 175, 55, 0.8)")

\* C20: after Theming a valid document every dataset has backgroundColor,
\* borderColor and borderWidth and every chart has options.plugins.title and
\* options.plugins.legend; a title block Theming added has display true and
\* the chart's title as text, and a block that was present is as it was.
C20_ThemedComplete ==
  (fpc = "themed" /\ v1.valid /\ ~out1.raised) =>
    \A i \in 1..Len(ChartsOf(out1.doc)) :
      LET before == ChartsOf(input)[i]
          after == ChartsOf(out1.doc)[i]
      IN /\ \A j \in 1..Len(DatasetsOf(after)) :
              {"backgroundColor", "borderColor", "borderWidth"}
                \subseteq DOMAIN DatasetsOf(after)[j].v
         /\ {"title", "legend"} \subseteq DOMAIN PluginsOf(after)
         /\ \A key \in {"title", "legend"} \cap DOMAIN PluginsOf(before) :
              PluginsOf(after)[key] = PluginsOf(before)[key]
         /\ "title" \notin DOMAIN PluginsOf(before) =>
              /\ PluginsOf(after)["title"].k = "dict"
              /\ {"display", "text"} \subseteq DOMAIN PluginsOf(after)["title"].v
              /\ PluginsOf(after)["title"].v["display"] = Bool(TRUE)
              /\ PluginsOf(after)["title"].v["text"] = before.v["title"]

\* C22: Theming preserves validity: for every document validate_config
\* accepts, apply_visualization_rules returns a document, and validate_config
\* accepts that document too.
C22_ThemingPreservesValidity ==
  /\ (fpc = "themed" /\ v1.valid) => ~out1.raised
  /\ (fpc = "themed_validated" /\ v1.valid) => v2.valid

\* What does hold: whenever Theming returns on a valid document, the document
\* it returns is valid.
C22_ThemedValidWhenReturned ==
  (fpc = "themed_validated" /\ v1.valid) => v2 = [valid |-> TRUE, error |-> NoError]

C22_ThemedValidReached ==
  /\ fpc = "themed_validated" /\ v1.valid /\ v2.valid
  /\ out1.doc # input
  /\ Len(ChartsOf(input)) = 2

(***************************************************************************)
(* ConversationViewSet.chat: concurrent chat requests, each a run of the    *)
(* handler.  The tables are sets of rows; a row's `req` names the request   *)
(* that wrote it.                                                           *)
(***************************************************************************)
MaxRequests == 2

Requests == 1..MaxRequests

SessionIds == {"s1", "s2"}

\* What generate_visualizations may return: None, or whatever json.loads
\* made of the model's answer.
GenResults ==
  { Null,
    Doc(List(<<BaseChart, Chart(Str("pie"), Str("U"), BaseData)>>)),
    Doc(List(<<Chart(Str("bar"), Str("T"), ShortData)>>)),
    Doc(List(<<Chart(Str("bar"), Str("T"),
                     Data(Labels(1), List(<<Dataset("D", <<Str("a")>>)>>)))>>)),
    Doc(Null),
    Doc(List(<<BaseChart,
               SetItem(Chart(Str("pie"), Str("U"), BaseData), "options",
                       Dict([plugins |-> Null]))>>)),
    Doc(List(<<BaseChart,
               Chart(Str("line"), Str("U"),
                     Data(Labels(1), List(<<Dataset("D", <<NaN>>)>>)))>>)) }

\* `not result`
Falsy(x) ==
  CASE x.k = "null" -> TRUE
    [] x.k = "bool" -> ~x.v
    [] x.k \in {"int", "float"} -> x.v = 0
    [] x.k \in {"str", "list"} -> Len(x.v) = 0
    [] x.k = "dict" -> DOMAIN x.v = {}
    [] OTHER -> FALSE

validate_chart_config_label(chart) ==
  /\ {"type", "title", "data"} \subseteq DOMAIN chart.v
  /\ chart.v["type"] \in { Str(t) : t \in ChartTypes }
  /\ PyIn("label", Get(chart, "data", EmptyDict)) = "yes"
  /\ PyIn("datasets", Get(chart, "data", EmptyDict)) = "yes"

\* VisualizationGenerator.validate_chart_config, on a chart that is a dict
validate_chart_config(chart) ==
  /\ {"type", "title", "data"} \subseteq DOMAIN chart.v
  /\ chart.v["type"] \in { Str(t) : t \in ChartTypes }
  /\ PyIn("labels", Get(chart, "data", EmptyDict)) = "yes"
  /\ PyIn("datasets", Get(chart, "data", EmptyDict)) = "yes"

\* The status a job row is created with
DefaultJobStatus == "pending"

InitialJobStatus == "processing"

\* The order of the statements of the try block once the document is valid:
\* theming, then the AI message and the visualizations, then the job update.
StepAfterSkipsTheme(step) ==
  CASE step = "validate" -> "persist"
    [] step = "theme" -> "persist"
    [] step = "persist" -> "complete"

StepAfter(step) ==
  CASE step = "validate" -> "theme"
    [] step = "theme" -> "persist"
    [] step = "persist" -> "complete"

\* chart_config = models.JSONField(): the database takes the text json.dumps
\* writes only if it is JSON, and json.dumps writes a NaN as the bare word NaN.
RECURSIVE Storable(_)
Storable(x) ==
  CASE x.k = "nan"  -> FALSE
    [] x.k = "list" -> \A i \in 1..Len(x.v) : Storable(x.v[i])
    [] x.k = "dict" -> \A key \in DOMAIN x.v : Storable(x.v[key])
    [] OTHER        -> TRUE

NoJob == [status |-> "none", progress |-> 0, error_message |-> "", conversation |-> 0]

\* The session_id of each request.  The requests are interchangeable, so
\* they are numbered with those of session "s1" first.
SessionsOfRequests ==
  { f \in [Requests -> SessionIds] :
      /\ f[1] = "s1"
      /\ \A r \in Requests \ {1} : f[r] = "s1" => f[r - 1] = "s1" }

PureIdle ==
  /\ input = Null /\ fpc = "idle"
  /\ v1 = NoVerdict /\ v2 = NoVerdict
  /\ out1 = NoOutcome /\ out2 = NoOutcome

Init ==
  /\ pc = [r \in Requests |-> "start"]
  /\ session \in SessionsOfRequests
  /\ result = [r \in Requests |-> Null]
  /\ conv = [r \in Requests |-> 0]
  /\ exc = [r \in Requests |-> ""]
  /\ conversations = {}
  /\ jobs = [r \in Requests |-> NoJob]
  /\ messages = {}
  /\ visualizations = {}
  /\ job_history = [r \in Requests |-> <<>>]
  /\ calls = [r \in Requests |-> <<>>]
  /\ PureIdle
  /\ ActiveIdle

Called(r, step, ok) == calls' = [calls EXCEPT ![r] = Append(@, [step |-> step, ok |-> ok])]

\* Conversation.objects.get_or_create: the lookup.  No row: it goes on to
\* create one.  Several rows: MultipleObjectsReturned leaves the handler.
ChatGet(r) ==
  /\ pc[r] = "start"
  /\ LET found == { c \in conversations : c.session_id = session[r] }
     IN /\ pc' = [pc EXCEPT ![r] = CASE Cardinality(found) = 0 -> "create"
                                     [] Cardinality(found) = 1 -> "begin"
                                     [] OTHER -> "error"]
        /\ conv' = [conv EXCEPT ![r] = IF Cardinality(found) = 1
                                       THEN (CHOOSE c \in found : TRUE).id ELSE 0]
  /\ UNCHANGED <<session, result, exc, conversations, jobs, messages,
                 visualizations, job_history, calls>>
  /\ UNCHANGED pure_vars
  /\ UNCHANGED active_vars

\* Conversation.objects.get_or_create: the insert
ChatCreate(r) ==
  /\ pc[r] = "create"
  /\ LET id == Cardinality(conversations) + 1
     IN /\ conversations' = conversations \cup {[id |-> id, session_id |-> session[r]]}
        /\ conv' = [conv EXCEPT ![r] = id]
  /\ pc' = [pc EXCEPT ![r] = "begin"]
  /\ UNCHANGED <<session, result, exc, jobs, messages, visualizations, job_history, calls>>
  /\ UNCHANGED pure_vars
  /\ UNCHANGED active_vars

\* Save user message; create processing job
ChatBegin(r) ==
  /\ pc[r] = "begin"
  /\ messages' = messages \cup
       {[req |-> r, conversation |-> conv[r], message_type |-> "user",
         content |-> "message", metadata |-> EmptyDict]}
  /\ jobs' = [jobs EXCEPT ![r] = [status |-> InitialJobStatus, progress |-> 0,
                                  error_message |-> "", conversation |-> conv[r]]]
  /\ job_history' = [job_history EXCEPT ![r] = Append(@, InitialJobStatus)]
  /\ pc' = [pc EXCEPT ![r] = "generate"]
  /\ UNCHANGED <<session, result, conv, exc, conversations, visualizations, calls>>
  /\ UNCHANGED pure_vars
  /\ UNCHANGED active_vars

\* result = viz_generator.generate_visualizations(...); if not result: raise
ChatGenerate(r) ==
  /\ pc[r] = "generate"
  /\ \E g \in GenResults :
       /\ result' = [result EXCEPT ![r] = g]
       /\ Called(r, "generate", ~Falsy(g))
       /\ pc' = [pc EXCEPT ![r] = IF Falsy(g) THEN "except" ELSE "validate"]
       /\ exc' = [exc EXCEPT ![r] = IF Falsy(g) THEN "Failed to generate visualizations"
                                    ELSE @]
  /\ UNCHANGED <<session, conv, conversations, jobs, messages, visualizations, job_history>>
  /\ UNCHANGED pure_vars
  /\ UNCHANGED active_vars

\* is_valid, error_msg = validator.validate_config(result)
ChatValidate(r) ==
  /\ pc[r] = "validate"
  /\ \E v \in {validate_config(result[r])} :
        /\ Called(r, "validate", v.valid)
        /\ pc' = [pc EXCEPT ![r] = IF v.valid THEN StepAfter("validate") ELSE "repair"]
  /\ UNCHANGED <<session, result, conv, exc, conversations, jobs, messages,
                 visualizations, job_history>>
  /\ UNCHANGED pure_vars
  /\ UNCHANGED active_vars

\* result = validator.fix_common_issues(result)
ChatRepair(r) ==
  /\ pc[r] = "repair"
  /\ \E out \in {fix_common_issues(result[r])} :
        /\ Called(r, "repair", ~out.raised)
        /\ result' = [result EXCEPT ![r] = out.doc]
        /\ pc' = [pc EXCEPT ![r] = IF out.raised THEN "except" ELSE "revalidate"]
        /\ exc' = [exc EXCEPT ![r] = IF out.raised THEN "raised in fix_common_issues" ELSE @]
  /\ UNCHANGED <<session, conv, conversations, jobs, messages, visualizations, job_history>>
  /\ UNCHANGED pure_vars
  /\ UNCHANGED active_vars

\* is_valid, error_msg = validator.validate_config(result); if not is_valid: raise
ChatRevalidate(r) ==
  /\ pc[r] = "revalidate"
  /\ \E v \in {validate_config(result[r])} :
        /\ Called(r, "validate", v.valid)
        /\ pc' = [pc EXCEPT ![r] = IF v.valid THEN StepAfter("validate") ELSE "except"]
        /\ exc' = [exc EXCEPT ![r] = IF v.valid THEN @ ELSE "Invalid visualization config"]
  /\ UNCHANGED <<session, result, conv, conversations, jobs, messages,
                 visualizations, job_history>>
  /\ UNCHANGED pure_vars
  /\ UNCHANGED active_vars

\* result = apply_visualization_rules(result)
ChatTheme(r) ==
  /\ pc[r] = "theme"
  /\ \E out \in {apply_visualization_rules(result[r])} :
        /\ Called(r, "theme", ~out.raised)
        /\ result' = [result EXCEPT ![r] = out.doc]
        /\ pc' = [pc EXCEPT ![r] = IF out.raised THEN "except" ELSE StepAfter("theme")]
        /\ exc' = [exc EXCEPT ![r] = IF out.raised THEN "raised in apply_visualization_rules"
                                     ELSE @]
  /\ UNCHANGED <<session, conv, conversations, jobs, messages, visualizations, job_history>>
  /\ UNCHANGED pure_vars
  /\ UNCHANGED active_vars

\* Save AI message; save visualizations.  Each Visualization.objects.create
\* is an INSERT committed on its own; the first chart the database refuses
\* raises out of the loop, past the charts already saved.
ChatPersist(r) ==
  /\ pc[r] = "persist"
  /\ \E charts \in {Get(result[r], "charts", List(<<>>)).v} :
       LET kept == { i \in 1..Len(charts) : validate_chart_config(charts[i]) }
           refused == { i \in kept : ~Storable(charts[i]) }
           saved == { i \in kept : \A j \in refused : i < j }
       IN /\ messages' = messages \cup
               {[req |-> r, conversation |-> conv[r], message_type |-> "ai",
                 content |-> "explanation",
                 metadata |-> Dict([charts_count |-> Int_(Len(charts))])]}
          /\ visualizations' = visualizations \cup
               { [req |-> r, index |-> i, conversation |-> conv[r],
                  title |-> Get(charts[i], "title", Str("Untitled Chart")),
                  chart_type |-> Get(charts[i], "type", Str("bar"))] : i \in saved }
          /\ Called(r, "persist", refused = {})
          /\ pc' = [pc EXCEPT ![r] = IF refused = {} THEN StepAfter("persist") ELSE "except"]
          /\ exc' = [exc EXCEPT ![r] = IF refused = {} THEN @ ELSE "IntegrityError"]
  /\ UNCHANGED <<session, result, conv, conversations, jobs, job_history>>
  /\ UNCHANGED pure_vars
  /\ UNCHANGED active_vars

\* Update job: completed
ChatComplete(r) ==
  /\ pc[r] = "complete"
  /\ jobs' = [jobs EXCEPT ![r].status = "completed", ![r].progress = 100]
  /\ job_history' = [job_history EXCEPT ![r] = Append(@, "completed")]
  /\ pc' = [pc EXCEPT ![r] = "done"]
  /\ UNCHANGED <<session, result, conv, exc, conversations, messages, visualizations, calls>>
  /\ UNCHANGED pure_vars
  /\ UNCHANGED active_vars

\* except Exception as e: update job with error; save error message
ChatExcept(r) ==
  /\ pc[r] = "except"
  /\ jobs' = [jobs EXCEPT ![r].status = "failed", ![r].error_message = exc[r]]
  /\ job_history' = [job_history EXCEPT ![r] = Append(@, "failed")]
  /\ messages' = messages \cup
       {[req |-> r, conversation |-> conv[r], message_type |-> "ai",
         content |-> "Sorry, I encountered an error", metadata |-> EmptyDict]}
  /\ pc' = [pc EXCEPT ![r] = "done"]
  /\ UNCHANGED <<session, result, conv, exc, conversations, visualizations, calls>>
  /\ UNCHANGED pure_vars
  /\ UNCHANGED active_vars

Next ==
  \E r \in Requests :
    \/ ChatGet(r) \/ ChatCreate(r) \/ ChatBegin(r) \/ ChatGenerate(r)
    \/ ChatValidate(r) \/ ChatRepair(r) \/ ChatRevalidate(r) \/ ChatTheme(r)
    \/ ChatPersist(r) \/ ChatComplete(r) \/ ChatExcept(r)

Spec == Init /\ [][Next]_vars

(***************************************************************************)
(* Properties of the chat handler.                                         *)
(***************************************************************************)
IsPrefix(s, t) == Len(s) <= Len(t) /\ \A i \in 1..Len(s) : s[i] = t[i]

Last(s) == s[Len(s)]

\* the request's calls of `step` that came out as `ok`
CallsOf(r, step, ok) ==
  { i \in 1..Len(calls[r]) : calls[r][i] = [step |-> step, ok |-> ok] }

\* C8, as stated: every job's status moves only along pending -> processing
\* -> completed or pending -> processing -> failed, starting in pending.
C8_JobStartsPending ==
  \A r \in Requests :
    job_history[r] # <<>> =>
      \/ IsPrefix(job_history[r], <<"pending", "processing", "completed">>)
      \/ IsPrefix(job_history[r], <<"pending", "processing", "failed">>)

\* C8, amended: every job's status moves only along processing -> completed
\* or processing -> failed: the job is created in processing, and once its
\* status is completed or failed it never changes again.
C8_JobStartsProcessing ==
  \A r \in Requests :
    /\ \/ IsPrefix(job_history[r], <<"processing", "completed">>)
       \/ IsPrefix(job_history[r], <<"processing", "failed">>)
    /\ job_history[r] # <<>> => jobs[r].status = Last(job_history[r])
    /\ job_history[r] = <<>> => jobs[r] = NoJob

C8_Witness ==
  \E r, q \in Requests :
    /\ job_history[r] = <<"processing", "failed">> /\ pc[r] = "done"
    /\ job_history[q] = <<"processing", "completed">> /\ pc[q] = "done"

\* C9: a request's job ends in failed exactly when generation returned
\* nothing or validate_config rejected both the generated document and its
\* repaired version; on every other path it ends in completed.
C9_FailedExactlyWhenRejected ==
  \A r \in Requests :
    pc[r] = "done" =>
      /\ jobs[r].status \in {"failed", "completed"}
      /\ jobs[r].status = "failed" <=>
           \/ CallsOf(r, "generate", FALSE) # {}
           \/ Cardinality(CallsOf(r, "validate", FALSE)) = 2

\* C10: when a request ends with its job in failed, no Visualization row
\* created by that request exists.
C10_NoVisualizationOfFailedRequest ==
  \A r \in Requests :
    (pc[r] = "done" /\ jobs[r].status = "failed") =>
      ~\E viz \in visualizations : viz.req = r

\* the error messages the except clause wrote for the request
ErrorMessages(r) ==
  { msg \in messages : msg.req = r /\ msg.content = "Sorry, I encountered an error" }

\* C11: when a request ends in failure, its conversation gets exactly one new
\* message describing the error, and that message's type is system.
C11_ErrorMessageIsSystem ==
  \A r \in Requests :
    (pc[r] = "done" /\ jobs[r].status = "failed") =>
      /\ Cardinality(ErrorMessages(r)) = 1
      /\ \A msg \in ErrorMessages(r) :
           msg.message_type = "system" /\ msg.conversation = conv[r]

\* the positions in the request's run at which it ran `step`
StepsOf(r, step) == { i \in 1..Len(calls[r]) : calls[r][i].step = step }

\* the step the request ran just before position i, and how it came out
Before(r, i) == IF i > 1 THEN calls[r][i - 1] ELSE [step |-> "none", ok |-> FALSE]

\* C21: within one chat request the steps run in a fixed order with no retry:
\* the generation service is called at most once and first; Repair runs at
\* most once, and only right after a validate_config call that rejected the
\* document; Theming runs only right after a validate_config call that
\* accepted it; the records are persisted only right after Theming returned.
C21_FixedOrderNoRetry ==
  \A r \in Requests :
    /\ Cardinality(StepsOf(r, "generate")) <= 1
    /\ calls[r] # <<>> => calls[r][1].step = "generate"
    /\ Cardinality(StepsOf(r, "repair")) <= 1
    /\ Cardinality(StepsOf(r, "validate")) <= 2
    /\ Cardinality(StepsOf(r, "theme")) <= 1
    /\ Cardinality(StepsOf(r, "persist")) <= 1
    /\ \A i \in StepsOf(r, "repair") : Before(r, i) = [step |-> "validate", ok |-> FALSE]
    /\ \A i \in StepsOf(r, "validate") :
         \/ Before(r, i) = [step |-> "generate", ok |-> TRUE]
         \/ Before(r, i) = [step |-> "repair", ok |-> TRUE]
    /\ \A i \in StepsOf(r, "theme") : Before(r, i) = [step |-> "validate", ok |-> TRUE]
    /\ \A i \in StepsOf(r, "persist") : Before(r, i) = [step |-> "theme", ok |-> TRUE]

C21_Witness ==
  \E r \in Requests :
    /\ pc[r] = "done"
    /\ jobs[r].status = "completed"
    /\ [ i \in 1..Len(calls[r]) |-> calls[r][i].step ] =
         <<"generate", "validate", "repair", "validate", "theme", "persist">>

\* the Visualization rows the request created
VisualizationsOf(r) == { viz \in visualizations : viz.req = r }

\* the AI message the request saved with its charts
AnswersOf(r) ==
  { msg \in messages : msg.req = r /\ msg.message_type = "ai"
                         /\ msg.content = "explanation" }

\* C23: for every request whose job ends in completed, validate_chart_config
\* accepts every chart of the validated and themed document, so the number of
\* Visualization rows created equals the number of charts of that document
\* and equals the charts_count in the AI message's metadata.
C23_OneVisualizationPerChart ==
  \A r \in Requests :
    (pc[r] = "done" /\ jobs[r].status = "completed") =>
      LET charts == ChartsOf(result[r])
      IN /\ \A i \in 1..Len(charts) : validate_chart_config(charts[i])
         /\ Cardinality(VisualizationsOf(r)) = Len(charts)
         /\ { viz.index : viz \in VisualizationsOf(r) } = 1..Len(charts)
         /\ Cardinality(AnswersOf(r)) = 1
         /\ \A msg \in AnswersOf(r) :
              msg.metadata = Dict([charts_count |-> Int_(Len(charts))])

C23_Witness ==
  \E r \in Requests :
    /\ pc[r] = "done" /\ jobs[r].status = "completed"
    /\ Cardinality(VisualizationsOf(r)) = 2
    /\ \E msg \in AnswersOf(r) : msg.metadata = Dict([charts_count |-> Int_(2)])

\* the Conversation rows of a session
ConversationsOf(s) == { c \in conversations : c.session_id = s }

\* C24: for every session_id, after any interleaving of concurrent chat
\* requests carrying it, at most one Conversation row exists for it.
C24_OneConversationPerSession ==
  (\A r \in Requests : pc[r] \in {"done", "error"}) =>
    \A s \in SessionIds : Cardinality(ConversationsOf(s)) <= 1

(***************************************************************************)
(* OllamaService.set_active_model, called concurrently through             *)
(* OllamaConfigurationViewSet.set_active.  A caller is one thread of        *)
(* requests: it makes its calls one after the other, and the callers run   *)
(* side by side.  The function runs three statements against the database, *)
(* none of them inside a transaction.                                      *)
(***************************************************************************)
MaxCallers == 2

MaxCalls == 2

Callers == 1..MaxCallers

\* model_name is unique: one row per name.  set_active takes the name from
\* a row it has just read, so the name exists.
ModelNames == {"llama3", "mistral", "phi3"}

NoConfig == [model_name |-> "", is_active |-> FALSE]

\* the rows with is_active true
Active == { m \in ModelNames : configs[m] }

\* Rows are created with is_active false; at most one has been made active.
ActiveInit ==
  /\ configs \in { f \in [ModelNames -> BOOLEAN] :
                     Cardinality({ m \in ModelNames : f[m] }) <= 1 }
  /\ spc = [c \in Callers |-> "idle"]
  /\ model_name = [c \in Callers |-> ""]
  /\ loaded = [c \in Callers |-> NoConfig]
  /\ named = {}
  /\ ncalls = [c \in Callers |-> 0]
  /\ PureIdle
  /\ ChatIdle

\* OllamaConfiguration.objects.update(is_active=False)
SetActiveDeactivate(c) ==
  /\ spc[c] = "idle"
  /\ ncalls[c] < MaxCalls
  /\ \E m \in ModelNames :
       /\ model_name' = [model_name EXCEPT ![c] = m]
       /\ named' = named \cup {m}
  /\ configs' = [m \in ModelNames |-> FALSE]
  /\ ncalls' = [ncalls EXCEPT ![c] = @ + 1]
  /\ spc' = [spc EXCEPT ![c] = "get"]
  /\ UNCHANGED loaded
  /\ UNCHANGED <<pure_vars, chat_vars>>

\* config = OllamaConfiguration.objects.get(model_name=model_name)
SetActiveGet(c) ==
  /\ spc[c] = "get"
  /\ loaded' = [loaded EXCEPT ![c] = [model_name |-> model_name[c],
                                       is_active |-> configs[model_name[c]]]]
  /\ spc' = [spc EXCEPT ![c] = "save"]
  /\ UNCHANGED <<configs, model_name, named, ncalls>>
  /\ UNCHANGED <<pure_vars, chat_vars>>

\* config.is_active = True; config.save(); return config
SetActiveSave(c) ==
  /\ spc[c] = "save"
  /\ loaded' = [loaded EXCEPT ![c].is_active = TRUE]
  /\ configs' = [configs EXCEPT ![loaded[c].model_name] = TRUE]
  /\ model_name' = [model_name EXCEPT ![c] = ""]
  /\ spc' = [spc EXCEPT ![c] = "idle"]
  /\ UNCHANGED <<named, ncalls>>
  /\ UNCHANGED <<pure_vars, chat_vars>>

ActiveNext ==
  \E c \in Callers :
    \/ SetActiveDeactivate(c) \/ SetActiveGet(c) \/ SetActiveSave(c)

SpecActive == ActiveInit /\ [][ActiveNext]_vars

\* C25: after any sequence or interleaving of set_active_model calls for
\* existing model names has completed, exactly one OllamaConfiguration has
\* is_active true, and it is the model named by one of those calls.
C25_ExactlyOneActive ==
  ((\A c \in Callers : spc[c] = "idle") /\ named # {}) =>
    /\ Cardinality(Active) = 1
    /\ Active \subseteq named

====
